---- MODULE Spec2Model ----
(***************************************************************************)
(* The follower side of the OUTPACE validator worker:                      *)
(*   services/validatorWorker/lib/followerRules.js  isValidTransition,     *)
(*                                                  isHealthy              *)
(*   services/validatorWorker/follower.js           tick, onNewState,      *)
(*                                                  getLatestMsg,          *)
(*                                                  augmentWithBalances    *)
(*   bin/validatorWorker.js                         the tick cycle and its *)
(*                                                  per-channel timeout    *)
(* Two revisions of follower.js are in the source tree (follower.js and    *)
(* part_000); the variable `revision` says which one the worker runs.      *)
(*                                                                         *)
(* Balances travel as decimal strings and are turned into big integers by  *)
(* toBNMap; a balance is represented here by the integer it denotes, and a *)
(* balance map by a function from the accounts it has to integers.         *)
(***************************************************************************)
EXTENDS Integers, Sequences, FiniteSets, TLC

VARIABLES
    revision,           \* which follower.js the worker runs
    validatorMessages,  \* the follower's validatorMessages collection: for each msg.type,
                        \* its documents in insertion order
    propagated,         \* the documents (type, index) that were POSTed to the other validator
    ticks,              \* the follower ticks in flight, one record per slot
    ticksStarted,       \* number of ticks started so far
    accounting,         \* the follower's own balance tree (its latest Accounting record)
    rules,              \* arguments and result of a direct call of a follower rule
    worker              \* bin/validatorWorker.js: the cycle over the listed channels

vars == <<revision, validatorMessages, propagated, ticks, ticksStarted,
          accounting, rules, worker>>

protocolVars == <<revision, validatorMessages, propagated, ticks, ticksStarted,
                  accounting, worker>>

----------------------------------------------------------------------------
(* Bounds of the model *)

MaxNewStates == 2       \* NewState messages the leader gets into the follower's store
MaxTicks == 2           \* follower ticks started
MaxTransitionBal == 2   \* largest balance in a direct isValidTransition call
MaxHealthBal == 21      \* largest balance of account "a" in a direct isHealthy call
MaxMinorBal == 1        \* largest balance of account "b" in a direct isHealthy call
MaxChannels == 2        \* channels in the list that the sentry returns
MaxCycles == 2          \* allChannelsTick calls of the worker

----------------------------------------------------------------------------
(* Program constants *)

HEALTH_THRESHOLD_PROMILLES == 950
depositAmount == 2
LeaderFee == 1
FollowerFee == 0

channel == [id |-> "c1", depositAmount |-> depositAmount,
            validators |-> <<"leader", "follower">>,
            fees |-> <<LeaderFee, FollowerFee>>]

\* an absent value (undefined, null) is <<>>, a present value v is <<v>>
undefined == <<>>
null == <<>>
Some(v) == <<v>>
EmptyMap == [k \in {} |-> 0]

----------------------------------------------------------------------------
(* lib/followerRules.js *)

\* next[acc] of a JS object: undefined when the key is absent
Get(map, k) == IF k \in DOMAIN map THEN Some(map[k]) ELSE undefined

\* !x as it would be were the balances JS numbers: zero is falsy too
NotOfNumber(x) == x = undefined \/ x = Some(0)

\* !x for x a BN or undefined: a BN object is truthy whatever its value
Not(x) == x = undefined

RECURSIVE sumBNs(_)
sumBNs(bns) == IF bns = <<>> THEN 0 ELSE Head(bns) + sumBNs(Tail(bns))

RECURSIVE ObjectKeys(_)
ObjectKeys(map) ==
    IF DOMAIN map = {} THEN <<>>
    ELSE LET k == CHOOSE x \in DOMAIN map : TRUE
         IN  <<k>> \o ObjectKeys([y \in DOMAIN map \ {k} |-> map[y]])

ObjectValues(map) == LET ks == ObjectKeys(map) IN [i \in 1..Len(ks) |-> map[ks[i]]]

sumMap(all) == sumBNs(ObjectValues(all))

BNmin(a, b) == IF a < b THEN a ELSE b

\* approved[k] || new BN(0)
OrZero(x) == IF Not(x) THEN 0 ELSE x[1]

sumMins(our, approved) ==
    LET ks == ObjectKeys(our)
    IN  sumBNs([i \in 1..Len(ks) |-> BNmin(our[ks[i]], OrZero(Get(approved, ks[i])))])

\* isValidTransition without the comparison of sumNext with the deposit
isValidTransitionUncapped(ch, prev, next) ==
    LET sumPrev == sumMap(prev)
        sumNext == sumMap(next)
    IN  /\ sumNext >= sumPrev
        /\ \A acc \in DOMAIN prev :
              LET nextBal == Get(next, acc)
              IN  IF Not(nextBal) THEN FALSE ELSE nextBal[1] >= prev[acc]
        /\ \A acc \in DOMAIN next : ~(next[acc] < 0)

isValidTransition(ch, prev, next) ==
    LET sumPrev == sumMap(prev)
        sumNext == sumMap(next)
    IN  /\ sumNext >= sumPrev
        /\ sumNext <= ch.depositAmount
        /\ \A acc \in DOMAIN prev :
              LET nextBal == Get(next, acc)
              IN  IF Not(nextBal) THEN FALSE ELSE nextBal[1] >= prev[acc]
        /\ \A acc \in DOMAIN next : ~(next[acc] < 0)

\* a.div(b) of bn.js for b # 0: the quotient truncated towards zero
BNdiv(a, b) ==
    LET abs(x) == IF x >= 0 THEN x ELSE -x
    IN  IF (a >= 0) = (b > 0) THEN abs(a) \div abs(b) ELSE -(abs(a) \div abs(b))

\* isHealthy reaches .div(sumOur) with sumOur zero (bn.js then throws)
isHealthyDividesByZero(our, approved) ==
    /\ ~(sumMins(our, approved) >= sumMap(our))
    /\ sumMap(our) = 0

\* isHealthy with .lte in place of .lt in the comparison with the threshold
isHealthyLte(our, approved) ==
    LET sumOur == sumMap(our)
        sumApprovedMins == sumMins(our, approved)
    IN  IF sumApprovedMins >= sumOur THEN TRUE
        ELSE IF BNdiv(sumApprovedMins * 1000, sumOur) <= HEALTH_THRESHOLD_PROMILLES THEN FALSE
        ELSE TRUE

\* isHealthy with .gt in place of .gte in the first comparison; with sumOur zero the
\* division then throws and no result comes back
isHealthyGt(our, approved) ==
    LET sumOur == sumMap(our)
        sumApprovedMins == sumMins(our, approved)
    IN  IF sumApprovedMins > sumOur THEN TRUE
        ELSE IF sumOur = 0 THEN FALSE
        ELSE IF BNdiv(sumApprovedMins * 1000, sumOur) < HEALTH_THRESHOLD_PROMILLES THEN FALSE
        ELSE TRUE

isHealthy(our, approved) ==
    LET sumOur == sumMap(our)
        sumApprovedMins == sumMins(our, approved)
    IN  IF sumApprovedMins >= sumOur THEN TRUE
        ELSE IF BNdiv(sumApprovedMins * 1000, sumOur) < HEALTH_THRESHOLD_PROMILLES THEN FALSE
        ELSE TRUE

----------------------------------------------------------------------------
(* Direct calls of the follower rules, on bounded balance maps *)

Accounts == {"a", "b"}

\* the balance maps over Accounts whose values for "a" are in va and for "b" in vb
MapsOver(va, vb) ==
    {EmptyMap}
    \cup {[k \in {"a"} |-> x] : x \in va}
    \cup {[k \in {"b"} |-> y] : y \in vb}
    \cup UNION {{[k \in Accounts |-> IF k = "a" THEN x ELSE y] : y \in vb} : x \in va}

TransitionMaps == MapsOver(-1..MaxTransitionBal, -1..MaxTransitionBal)
HealthMaps == MapsOver(0..MaxHealthBal, 0..MaxMinorBal)

\* fn: the function called ("f?" before the call, "f" after it); a, b: its balance
\* maps; newMsg, approveMsg: the messages of an onNewState call; result, threw, res:
\* what the call returned
NoCall == [fn |-> "none", a |-> EmptyMap, b |-> EmptyMap, newMsg |-> null,
           approveMsg |-> undefined, result |-> FALSE, threw |-> FALSE, res |-> null]

\* the cycle of bin/validatorWorker.js before its first allChannelsTick; singleTick:
\* argv.singleTick; channels: the list of the running cycle, a channel being the flag
\* whether we are one of its validators; status: of each channel's validatorTick;
\* cycles: allChannelsTick calls so far; failed: 'allChannelsTick failed' was logged
\* in the running cycle; waitElapsed: the timer of wait(cfg.WAIT_TIME) that
\* loopChannels set with the running cycle has fired; exitCode: of process.exit
NoWorker == [pc |-> "start", singleTick |-> FALSE, channels |-> <<>>, status |-> <<>>,
             cycles |-> 0, failed |-> FALSE, waitElapsed |-> FALSE, exitCode |-> <<>>]

RulesInit ==
    \/ \E prev \in TransitionMaps, next \in TransitionMaps :
          rules = [NoCall EXCEPT !.fn = "isValidTransition?", !.a = prev, !.b = next]
    \/ \E our \in HealthMaps, approved \in HealthMaps :
          rules = [NoCall EXCEPT !.fn = "isHealthy?", !.a = our, !.b = approved]

CallIsValidTransition ==
    /\ rules.fn = "isValidTransition?"
    /\ rules' = [rules EXCEPT !.fn = "isValidTransition",
                              !.result = isValidTransition(channel, rules.a, rules.b)]
    /\ UNCHANGED protocolVars

CallIsHealthy ==
    /\ rules.fn = "isHealthy?"
    /\ rules' = [rules EXCEPT !.fn = "isHealthy",
                              !.threw = isHealthyDividesByZero(rules.a, rules.b),
                              !.result = IF isHealthyDividesByZero(rules.a, rules.b) THEN FALSE
                                         ELSE isHealthy(rules.a, rules.b)]
    /\ UNCHANGED protocolVars

----------------------------------------------------------------------------
(* The channel's validators, the signing adapter and the state root *)

leader == channel.validators[1]
whoami == channel.validators[2]

\* the 32-byte commitment binding (channelId, balancesAfterFees)
getStateRoot(ch, balancesAfterFees) == [channelId |-> ch.id, tree |-> balancesAfterFees]

ZeroRoot == [channelId |-> "", tree |-> EmptyMap]

isValidRootHash(stateRoot, ch, balancesAfterFees) ==
    stateRoot = getStateRoot(ch, balancesAfterFees)

\* the dummy adapter: "Dummy adapter signature for <hash> by <id>"
sign(id, hash) == [signer |-> id, hash |-> hash]

verify(id, hash, signature) == signature = sign(id, hash)

\* the fee tree: publishers keep their share of (deposit - fees), each validator gets
\* its fee prorated by sum(balances)/deposit, the rounding remainder goes to the leader
getBalancesAfterFeesTree(balances, ch) ==
    LET totalFee == ch.fees[1] + ch.fees[2]
        total == sumMap(balances)
        publisher(k) == (balances[k] * (ch.depositAmount - totalFee)) \div ch.depositAmount
        fee(i) == (ch.fees[i] * total) \div ch.depositAmount
        paid == sumMap([k \in DOMAIN balances |-> publisher(k)]) + fee(1) + fee(2)
    IN  [k \in DOMAIN balances \cup {ch.validators[1], ch.validators[2]} |->
            IF k = ch.validators[1] THEN fee(1) + (total - paid)
            ELSE IF k = ch.validators[2] THEN fee(2)
            ELSE publisher(k)]

isValidValidatorFees(ch, balances, balancesAfterFees) ==
    LET calcBalancesAfterFees == getBalancesAfterFeesTree(balances, ch)
    IN  calcBalancesAfterFees = balancesAfterFees

----------------------------------------------------------------------------
(* Validator messages and the validatorMessages collection *)

BlankMsg == [channelId |-> channel.id, from |-> "", type |-> "", stateRoot |-> ZeroRoot,
             signature |-> sign("", ZeroRoot), balances |-> EmptyMap,
             balancesAfterFees |-> EmptyMap, isHealthy |-> FALSE, reason |-> "",
             created |-> 0]

NewStateMsg(balances, balancesAfterFees, stateRoot, signer) ==
    [BlankMsg EXCEPT !.from = leader, !.type = "NewState", !.balances = balances,
                     !.balancesAfterFees = balancesAfterFees, !.stateRoot = stateRoot,
                     !.signature = sign(signer, stateRoot), !.created = 1]

\* What a leader, honest or not, may put into a NewState: any of LeaderBalances, with
\* the fields of Faults forged: balancesAfterFees that leave the fees out, a stateRoot
\* of another tree, a signature by somebody else.
LeaderBalances == {[k \in {"a"} |-> 1], [k \in {"a"} |-> 2]}
Faults == {{}, {"fees"}, {"root"}, {"signature"}, {"fees", "root", "signature"}}

Forged(balances, faults) ==
    LET balancesAfterFees == IF "fees" \in faults THEN balances
                             ELSE getBalancesAfterFeesTree(balances, channel)
        stateRoot == IF "root" \in faults THEN getStateRoot(channel, EmptyMap)
                     ELSE getStateRoot(channel, balancesAfterFees)
        signer == IF "signature" \in faults THEN "mallory" ELSE leader
    IN  NewStateMsg(balances, balancesAfterFees, stateRoot, signer)

\* a NewState, well-formed otherwise, whose balances exceed the deposit
Overdrawn == Forged([k \in {"a"} |-> channel.depositAmount + 1], {})

NewStates == {Forged(b, f) : b \in LeaderBalances, f \in Faults} \cup {Overdrawn}

MsgTypes == {"NewState", "ApproveState", "RejectState", "Heartbeat"}

\* every query of the worker names the msg.type, so the collection is kept by type
Matching(channelId, from, type) ==
    {i \in 1..Len(validatorMessages[type]) :
        /\ validatorMessages[type][i].channelId = channelId
        /\ validatorMessages[type][i].from = from}

\* insertOne for each of msgs, in order
insert(msgs) ==
    [type \in MsgTypes |->
        validatorMessages[type] \o SelectSeq(msgs, LAMBDA m : m.type = type)]

\* getLatestMsg with sort({ _id: 1 }): the oldest document
getOldestMsgById(channelId, from, type) ==
    LET found == Matching(channelId, from, type)
    IN  IF found = {} THEN {null}
        ELSE {Some(validatorMessages[type][CHOOSE i \in found : \A j \in found : i <= j])}

\* follower.js: find(...).sort({ _id: -1 }).limit(1)
getLatestMsgById(channelId, from, type) ==
    LET found == Matching(channelId, from, type)
    IN  IF found = {} THEN {null}
        ELSE {Some(validatorMessages[type][CHOOSE i \in found : \A j \in found : j <= i])}

\* part_000: find(...).sort({ 'msg.created': -1 }).limit(1); the order among equal
\* keys is not defined
getLatestMsgByCreated(channelId, from, type) ==
    LET found == Matching(channelId, from, type)
    IN  IF found = {} THEN {null}
        ELSE {Some(validatorMessages[type][i]) : i \in
                {i \in found : \A j \in found :
                    validatorMessages[type][j].created <= validatorMessages[type][i].created}}

\* the set of messages the query may return
getLatestMsg(channelId, from, type) ==
    IF revision = "part_000" THEN getLatestMsgByCreated(channelId, from, type)
    ELSE getLatestMsgById(channelId, from, type)

\* augmentWithBalances looking only at the NewStates that we sent ourselves
augmentWithBalancesOfOurs(approveMsg) ==
    IF approveMsg = null THEN [threw |-> FALSE, value |-> undefined]
    ELSE LET docs == validatorMessages["NewState"]
             found == {i \in 1..Len(docs) : /\ docs[i].stateRoot = approveMsg[1].stateRoot
                                            /\ docs[i].from = whoami}
         IN  IF found = {} THEN [threw |-> TRUE, value |-> undefined]
             ELSE LET o == docs[CHOOSE i \in found : \A j \in found : i <= j]
                  IN  [threw |-> FALSE,
                       value |-> Some([approveMsg[1] EXCEPT !.balances = o.balances])]

\* findOne({ 'msg.type': 'NewState', 'msg.stateRoot': approveMsg.stateRoot }): the first
\* such document of the collection, whatever its channel and sender
augmentWithBalances(approveMsg) ==
    IF approveMsg = null THEN [threw |-> FALSE, value |-> undefined]
    ELSE LET docs == validatorMessages["NewState"]
             found == {i \in 1..Len(docs) : docs[i].stateRoot = approveMsg[1].stateRoot}
         IN  IF found = {} THEN [threw |-> TRUE, value |-> undefined]
             ELSE LET o == docs[CHOOSE i \in found : \A j \in found : i <= j]
                  IN  [threw |-> FALSE,
                       value |-> Some([approveMsg[1] EXCEPT !.balances = o.balances])]

----------------------------------------------------------------------------
(* The producer tick, the heartbeat and persistAndPropagate *)

\* folds the pending event aggregates (one token each, to publisher "a") into the
\* balance tree, clamped so that the sum stays within the deposit; pending: no event,
\* one event, or events that pay more than the deposit
PendingPayouts == {0, 1, channel.depositAmount + 1}

producerTick(balances, pending) ==
    LET room == channel.depositAmount - sumMap(balances)
        paid == BNmin(pending, room)
        folded == IF paid <= 0 THEN balances
                  ELSE [k \in DOMAIN balances \cup {"a"} |->
                           OrZero(Get(balances, k)) + (IF k = "a" THEN paid ELSE 0)]
    IN  [balances |-> folded, newStateTree |-> folded # balances]

\* the leader tick on the leader's own balance tree: the NewState it emits when its
\* producer tick returned a new state tree
leaderTick(balances, pending) ==
    LET res == producerTick(balances, pending)
    IN  IF res.newStateTree THEN <<Forged(res.balances, {})>> ELSE <<>>

HeartbeatMsg ==
    [BlankMsg EXCEPT !.from = whoami, !.type = "Heartbeat", !.stateRoot = ZeroRoot,
                     !.signature = sign(whoami, ZeroRoot)]

\* whether HEARTBEAT_TIME has passed since our last Heartbeat, when there is one
HeartbeatClock ==
    IF getLatestMsgById(channel.id, whoami, "Heartbeat") = {null} THEN {FALSE} ELSE BOOLEAN

\* the messages heartbeatIfNothingNew emits for the result res of a tick; elapsed: more
\* than HEARTBEAT_TIME has passed since our last Heartbeat, if there is one
heartbeatIfNothingNew(res, elapsed) ==
    LET due == getLatestMsgById(channel.id, whoami, "Heartbeat") = {null} \/ elapsed
    IN  IF res.nothingNew /\ due THEN <<HeartbeatMsg>> ELSE <<>>

\* the documents that persistAndPropagate, called for each of msgs, writes and POSTs
persistAndPropagate(msgs) ==
    UNION {{<<type, i>> : i \in (Len(validatorMessages[type]) + 1)..Len(insert(msgs)[type])} :
              type \in MsgTypes}

----------------------------------------------------------------------------
(* follower.js: onNewState *)

CheckOrder == <<"isValidTransition", "isValidValidatorFees", "isValidRootHash", "verify">>

\* part_000 hands every failure to onError
onError(reason, newMsg, evaluated) ==
    [nothingNew |-> TRUE,
     emitted |-> <<[BlankMsg EXCEPT !.from = whoami, !.type = "RejectState",
                                    !.reason = reason, !.stateRoot = newMsg.stateRoot,
                                    !.balances = newMsg.balances,
                                    !.balancesAfterFees = newMsg.balancesAfterFees]>>,
     reason |-> reason, evaluated |-> evaluated, producer |-> TRUE]

\* follower.js logs the failure and returns { nothingNew: true }
logError(reason, newMsg, evaluated) ==
    [nothingNew |-> TRUE, emitted |-> <<>>, reason |-> reason, evaluated |-> evaluated,
     producer |-> TRUE]

invalid(reason, newMsg, evaluated) ==
    IF revision = "part_000" THEN onError(reason, newMsg, evaluated)
    ELSE logError(reason, newMsg, evaluated)

\* onNewState with the fees checked before the transition
onNewStateFeesFirst(balances, newMsg, approveMsg) ==
    LET prevBalances == IF approveMsg # undefined THEN approveMsg[1].balances ELSE EmptyMap
        newBalances == newMsg.balances
        balancesAfterFees == newMsg.balancesAfterFees
        stateRoot == newMsg.stateRoot
        signature == newMsg.signature
    IN  IF ~isValidValidatorFees(channel, newBalances, balancesAfterFees)
        THEN invalid("InvalidValidatorFees", newMsg, <<CheckOrder[2]>>)
        ELSE IF ~isValidTransition(channel, prevBalances, newBalances)
        THEN invalid("InvalidTransition", newMsg, <<CheckOrder[2], CheckOrder[1]>>)
        ELSE IF ~isValidRootHash(stateRoot, channel, balancesAfterFees)
        THEN invalid("InvalidRootHash", newMsg, SubSeq(CheckOrder, 1, 3))
        ELSE IF ~verify(leader, stateRoot, signature)
        THEN invalid("InvalidSignature", newMsg, SubSeq(CheckOrder, 1, 4))
        ELSE [nothingNew |-> FALSE,
              emitted |-> <<[BlankMsg EXCEPT
                               !.from = whoami, !.type = "ApproveState",
                               !.stateRoot = stateRoot,
                               !.isHealthy = isHealthy(balances, newBalances),
                               !.signature = sign(whoami, stateRoot),
                               !.created = IF revision = "part_000"
                                           THEN Len(validatorMessages["ApproveState"]) + 1
                                           ELSE 0]>>,
              reason |-> "", evaluated |-> SubSeq(CheckOrder, 1, 4), producer |-> TRUE]

onNewState(balances, newMsg, approveMsg) ==
    LET prevBalances == IF approveMsg # undefined THEN approveMsg[1].balances ELSE EmptyMap
        newBalances == newMsg.balances
        balancesAfterFees == newMsg.balancesAfterFees
        stateRoot == newMsg.stateRoot
        signature == newMsg.signature
    IN  IF ~isValidTransition(channel, prevBalances, newBalances)
        THEN invalid("InvalidTransition", newMsg, SubSeq(CheckOrder, 1, 1))
        ELSE IF ~isValidValidatorFees(channel, newBalances, balancesAfterFees)
        THEN invalid("InvalidValidatorFees", newMsg, SubSeq(CheckOrder, 1, 2))
        ELSE IF ~isValidRootHash(stateRoot, channel, balancesAfterFees)
        THEN invalid("InvalidRootHash", newMsg, SubSeq(CheckOrder, 1, 3))
        ELSE IF ~verify(leader, stateRoot, signature)
        THEN invalid("InvalidSignature", newMsg, SubSeq(CheckOrder, 1, 4))
        ELSE [nothingNew |-> FALSE,
              emitted |-> <<[BlankMsg EXCEPT
                               !.from = whoami, !.type = "ApproveState",
                               !.stateRoot = stateRoot,
                               !.isHealthy = isHealthy(balances, newBalances),
                               !.signature = sign(whoami, stateRoot),
                               !.created = IF revision = "part_000"
                                           THEN Len(validatorMessages["ApproveState"]) + 1
                                           ELSE 0]>>,
              reason |-> "", evaluated |-> SubSeq(CheckOrder, 1, 4), producer |-> TRUE]

----------------------------------------------------------------------------
(* Direct calls of onNewState, on NewStates with every combination of forged fields *)

CallNewStates ==
    {Forged(b, f) : b \in LeaderBalances \cup {Overdrawn.balances},
                    f \in SUBSET {"fees", "root", "signature"}}

\* what augmentWithBalances hands on: nothing, or our ApproveState of an earlier
\* NewState of the leader with that NewState's balances
CallApproveMsgs ==
    {undefined} \cup
    {Some([BlankMsg EXCEPT !.from = whoami, !.type = "ApproveState",
                           !.stateRoot = Forged(b, {}).stateRoot,
                           !.signature = sign(whoami, Forged(b, {}).stateRoot),
                           !.balances = b]) : b \in LeaderBalances}

OnNewStateInit ==
    \E balances \in {EmptyMap} \cup LeaderBalances, newMsg \in CallNewStates,
       approveMsg \in CallApproveMsgs :
       rules = [NoCall EXCEPT !.fn = "onNewState?", !.a = balances,
                              !.newMsg = Some(newMsg), !.approveMsg = approveMsg]

CallOnNewState ==
    /\ rules.fn = "onNewState?"
    /\ rules' = [rules EXCEPT !.fn = "onNewState",
                              !.res = Some(onNewState(rules.a, rules.newMsg[1],
                                                      rules.approveMsg))]
    /\ UNCHANGED protocolVars

----------------------------------------------------------------------------
(* The worker: bin/validatorWorker.js and follower.js tick *)

\* the tick of the running cycle, and a tick that went on after its timeout
Slots == {"current", "abandoned"}

IdleSlot == [pc |-> "idle", timedOut |-> FALSE, newMsg |-> null, approveMsg |-> undefined]

\* the worker of services/validatorWorker/follower.js, started on an empty collection
Init ==
    /\ revision = "follower.js"
    /\ validatorMessages = [type \in MsgTypes |-> <<>>]
    /\ propagated = {}
    /\ ticks = [t \in Slots |-> IdleSlot]
    /\ ticksStarted = 0
    /\ accounting = EmptyMap
    /\ rules = NoCall
    /\ worker = NoWorker

\* every validatorTick of the running cycle has settled: its tick finished or timed out
CycleSettled == \A t \in Slots : ticks[t].pc = "idle" \/ ticks[t].timedOut

\* loopChannels -> allChannelsTick -> validatorTick: the follower tick starts and
\* reads the leader's latest NewState and our latest ApproveState
validatorTick(t) ==
    /\ ticksStarted < MaxTicks
    /\ CycleSettled
    /\ t = "current"
    /\ ticks[t].pc = "idle"
    /\ ticksStarted' = ticksStarted + 1
    /\ \E newMsg \in getLatestMsg(channel.id, leader, "NewState"),
          approveMsg \in getLatestMsg(channel.id, whoami, "ApproveState") :
          LET augmented == augmentWithBalances(approveMsg)
          IN  IF augmented.threw
              THEN UNCHANGED ticks
              ELSE ticks' = [ticks EXCEPT ![t] = [pc |-> "fetched", timedOut |-> FALSE,
                                                  newMsg |-> newMsg,
                                                  approveMsg |-> augmented.value]]
    /\ UNCHANGED <<revision, validatorMessages, propagated, accounting, rules, worker>>

\* a timeout that rolls back what the tick has written so far
timeoutUndoingWrites(t) ==
    /\ t = "current"
    /\ ticks[t].pc = "fetched"
    /\ ticks["abandoned"].pc = "idle"
    /\ ticks' = [ticks EXCEPT ![t] = IdleSlot,
                              !["abandoned"] = [ticks[t] EXCEPT !.timedOut = TRUE]]
    /\ validatorMessages' = [type \in MsgTypes |-> <<>>]
    /\ UNCHANGED <<revision, propagated, ticksStarted, accounting, rules, worker>>

\* the timer of Promise.race fires first: validatorTick settles, the tick goes on
timeout(t) ==
    /\ t = "current"
    /\ ticks[t].pc = "fetched"
    /\ ticks["abandoned"].pc = "idle"
    /\ ticks' = [ticks EXCEPT ![t] = IdleSlot,
                              !["abandoned"] = [ticks[t] EXCEPT !.timedOut = TRUE]]
    /\ UNCHANGED <<revision, validatorMessages, propagated, ticksStarted, accounting, rules, worker>>

\* the tick's second .then handing onNewState the balances from before the producer tick
tickResultStaleBalances(newMsg, approveMsg, pending) ==
    LET latestIsApproved ==
            /\ newMsg # null
            /\ approveMsg # undefined
            /\ newMsg[1].stateRoot = approveMsg[1].stateRoot
        res == producerTick(accounting, pending)
    IN  IF newMsg = null \/ latestIsApproved
        THEN [nothingNew |-> ~res.newStateTree, emitted |-> <<>>, reason |-> "",
              evaluated |-> <<>>, producer |-> TRUE]
        ELSE onNewState(accounting, newMsg[1], approveMsg)

\* the tick's second .then without latestIsApproved: every NewState read is validated
tickResultRevalidating(newMsg, approveMsg, pending) ==
    LET res == producerTick(accounting, pending)
    IN  IF newMsg = null
        THEN [nothingNew |-> ~res.newStateTree, emitted |-> <<>>, reason |-> "",
              evaluated |-> <<>>, producer |-> TRUE]
        ELSE onNewState(res.balances, newMsg[1], approveMsg)

\* the result of the tick's second .then for what the tick read; pending: the payouts
\* of the event aggregates that came in since the last producer tick
tickResult(newMsg, approveMsg, pending) ==
    LET latestIsApproved ==
            /\ newMsg # null
            /\ approveMsg # undefined
            /\ newMsg[1].stateRoot = approveMsg[1].stateRoot
        res == producerTick(accounting, pending)
    IN  IF newMsg = null \/ latestIsApproved
        THEN [nothingNew |-> ~res.newStateTree, emitted |-> <<>>, reason |-> "",
              evaluated |-> <<>>, producer |-> TRUE]
        ELSE onNewState(res.balances, newMsg[1], approveMsg)

\* what the tick in slot t writes to validatorMessages
tickEmits(t, pending, elapsed) ==
    LET res == tickResult(ticks[t].newMsg, ticks[t].approveMsg, pending)
    IN  res.emitted \o heartbeatIfNothingNew(res, elapsed)

\* follower.js tick, from the second .then on: producer tick, onNewState, heartbeat
tick(t) ==
    /\ ticks[t].pc = "fetched"
    /\ ticks' = [ticks EXCEPT ![t] = IdleSlot]
    /\ UNCHANGED <<revision, ticksStarted, rules, worker>>
    /\ \E pending \in PendingPayouts, elapsed \in HeartbeatClock :
          \E emitted \in {tickEmits(t, pending, elapsed)} :
             /\ accounting' = producerTick(accounting, pending).balances
             /\ validatorMessages' = insert(emitted)
             /\ propagated' = propagated \cup persistAndPropagate(emitted)

----------------------------------------------------------------------------
(* The environment: the leader's messages *)

NumberOf(type) == Len(validatorMessages[type])

\* POST /channel/c1/validator-messages by the leader, who stamps `created` with its clock
PostNewState ==
    /\ NumberOf("NewState") < MaxNewStates
    /\ \E m \in NewStates :
          validatorMessages' = insert(<<[m EXCEPT !.created = NumberOf("NewState") + 1]>>)
    /\ UNCHANGED <<revision, propagated, ticks, ticksStarted, accounting, rules, worker>>

Next ==
    \/ \E t \in Slots : validatorTick(t)
    \/ \E t \in Slots : timeout(t)
    \/ \E t \in Slots : tick(t)
    \/ PostNewState

Spec == Init /\ [][Next]_vars

\* the same worker with the follower tick of part_000
InitPart000 ==
    /\ revision = "part_000"
    /\ validatorMessages = [type \in MsgTypes |-> <<>>]
    /\ propagated = {}
    /\ ticks = [t \in Slots |-> IdleSlot]
    /\ ticksStarted = 0
    /\ accounting = EmptyMap
    /\ rules = NoCall
    /\ worker = NoWorker

SpecPart000 == InitPart000 /\ [][Next]_vars

\* the worker under fair scheduling: loopChannels keeps starting cycles, and a tick
\* that was started completes
LiveSpec ==
    /\ Spec
    /\ WF_vars(\E t \in Slots : validatorTick(t))
    /\ \A t \in Slots : WF_vars(tick(t))

\* a direct call of isValidTransition, isHealthy or onNewState
RulesSpecInit ==
    /\ revision \in {"follower.js", "part_000"}
    /\ validatorMessages = [type \in MsgTypes |-> <<>>]
    /\ propagated = {}
    /\ ticks = [t \in Slots |-> IdleSlot]
    /\ ticksStarted = 0
    /\ accounting = EmptyMap
    /\ (RulesInit \/ OnNewStateInit)
    /\ worker = NoWorker

RulesNext == CallIsValidTransition \/ CallIsHealthy \/ CallOnNewState

RulesSpec == RulesSpecInit /\ [][RulesNext]_vars

----------------------------------------------------------------------------
(* persistAndPropagate, step by step: the local write, then the POST to the peer *)

\* the messages a follower tick hands to persistAndPropagate: what onNewState emits
\* for the NewStates of the direct calls, and the Heartbeat
Emittable ==
    {HeartbeatMsg} \cup
    UNION {{onNewState(b, m, a).emitted[n] : n \in DOMAIN onNewState(b, m, a).emitted} :
              <<b, m, a>> \in ({EmptyMap} \cup LeaderBalances) \X CallNewStates
                               \X CallApproveMsgs}

\* a tick, read done, is about to call persistAndPropagate(adapter, otherValidators,
\* channel, msg)
PropagationInit ==
    /\ revision \in {"follower.js", "part_000"}
    /\ validatorMessages = [type \in MsgTypes |-> <<>>]
    /\ propagated = {}
    /\ ticks = [t \in Slots |-> IF t = "current" THEN [IdleSlot EXCEPT !.pc = "fetched"]
                                 ELSE IdleSlot]
    /\ ticksStarted = 1
    /\ accounting = EmptyMap
    /\ \E msg \in Emittable :
          rules = [NoCall EXCEPT !.fn = "persistAndPropagate?", !.newMsg = Some(msg)]
    /\ worker = NoWorker

\* the local write: insertOne, which may fail; then persistAndPropagate rejects
persistLocally ==
    /\ rules.fn = "persistAndPropagate?"
    /\ \/ /\ validatorMessages' = insert(<<rules.newMsg[1]>>)
          /\ rules' = [rules EXCEPT !.fn = "persisted"]
       \/ /\ validatorMessages' = validatorMessages
          /\ rules' = [rules EXCEPT !.fn = "persistAndPropagate", !.threw = TRUE]
    /\ UNCHANGED <<revision, propagated, ticks, ticksStarted, accounting, worker>>

\* the POST of the persisted message to the other validator, which may fail; the
\* failure is logged
propagate ==
    /\ rules.fn = "persisted"
    /\ \E ok \in BOOLEAN :
          /\ rules' = [rules EXCEPT !.fn = "persistAndPropagate", !.result = ok]
          /\ propagated' =
                IF ok THEN propagated \cup {<<rules.newMsg[1].type,
                                              Len(validatorMessages[rules.newMsg[1].type])>>}
                ELSE propagated
    /\ UNCHANGED <<revision, validatorMessages, ticks, ticksStarted, accounting, worker>>

PropagationNext ==
    \/ persistLocally
    \/ propagate
    \/ \E t \in Slots : timeout(t)

PropagationSpec == PropagationInit /\ [][PropagationNext]_vars

----------------------------------------------------------------------------
(* The worker on a collection that also holds NewStates of others *)

\* NewState documents with the stateRoot of a NewState of the leader and balances of
\* their own: sent on the channel by somebody else, or stored under another channel
ForeignNewStates ==
    {[Forged(b, {}) EXCEPT !.from = who[1], !.channelId = who[2], !.balances = EmptyMap] :
        b \in LeaderBalances, who \in {<<"mallory", channel.id>>, <<leader, "c2">>}}

\* POST /channel/:id/validator-messages of such a document
PostForeignNewState ==
    /\ NumberOf("NewState") < MaxNewStates
    /\ \E m \in ForeignNewStates : validatorMessages' = insert(<<m>>)
    /\ UNCHANGED <<revision, propagated, ticks, ticksStarted, accounting, rules, worker>>

ForeignNext ==
    \/ \E t \in Slots : validatorTick(t)
    \/ \E t \in Slots : tick(t)
    \/ PostNewState
    \/ PostForeignNewState

ForeignSpec == Init /\ [][ForeignNext]_vars

----------------------------------------------------------------------------
(* Direct calls of getLatestMsg, on stores filled in any order *)

\* the NewState documents that the sentry inserts: from the leader or from somebody
\* else, msg.created as the sender set it (0: not set)
PostedDocs ==
    {[Forged(b, {}) EXCEPT !.from = from, !.created = created] :
        b \in LeaderBalances, from \in {leader, "mallory"}, created \in {0, 1}}

LatestMsgInit ==
    /\ revision \in {"follower.js", "part_000"}
    /\ validatorMessages = [type \in MsgTypes |-> <<>>]
    /\ propagated = {}
    /\ ticks = [t \in Slots |-> IdleSlot]
    /\ ticksStarted = 0
    /\ accounting = EmptyMap
    /\ rules = NoCall
    /\ worker = NoWorker

\* insertOne of a posted message
insertOne ==
    /\ rules.fn = "none"
    /\ NumberOf("NewState") < MaxNewStates
    /\ \E doc \in PostedDocs : validatorMessages' = insert(<<doc>>)
    /\ UNCHANGED <<revision, propagated, ticks, ticksStarted, accounting, rules, worker>>

\* the tick's getLatestMsg(channel.id, channel.validators[0], 'NewState')
CallGetLatestMsg ==
    /\ rules.fn = "none"
    /\ \E o \in getLatestMsg(channel.id, leader, "NewState") :
          rules' = [rules EXCEPT !.fn = "getLatestMsg", !.newMsg = o]
    /\ UNCHANGED protocolVars

LatestMsgNext == insertOne \/ CallGetLatestMsg

LatestMsgSpec == LatestMsgInit /\ [][LatestMsgNext]_vars

----------------------------------------------------------------------------
(* bin/validatorWorker.js: the cycle over the channels of the list *)

\* what the cycle leaves alone
tickVars == <<revision, validatorMessages, propagated, ticks, ticksStarted, accounting,
              rules>>

\* the lists /channel/list may return: up to MaxChannels channels, each one the flag
\* whether adapter.whoami() is among its validators
ChannelLists == UNION {[1..n -> BOOLEAN] : n \in 0..MaxChannels}

\* a validatorTick that has settled: its tick resolved, its tick rejected, or the timer
\* of the race fired first
Settled == {"resolved", "failed", "timedOut"}

\* channels.map(validatorTick): validatorTick is called for the channels in order; the
\* assertion of line 69 throws out of map, so no later channel is mapped
mapValidatorTick(channels) ==
    LET notValidating == {i \in DOMAIN channels : ~channels[i]}
        first == CHOOSE i \in notValidating : \A j \in notValidating : i <= j
    IN  [threw |-> notValidating # {},
         status |-> [i \in DOMAIN channels |->
                        IF notValidating = {} \/ i < first THEN "running"
                        ELSE IF i = first THEN "failed"
                        ELSE "notStarted"]]

\* adapter.init and unlock are done; argv.singleTick is either
WorkerInit ==
    /\ revision = "follower.js"
    /\ validatorMessages = [type \in MsgTypes |-> <<>>]
    /\ propagated = {}
    /\ ticks = [t \in Slots |-> IdleSlot]
    /\ ticksStarted = 0
    /\ accounting = EmptyMap
    /\ rules = NoCall
    /\ \E singleTick \in BOOLEAN : worker = [NoWorker EXCEPT !.singleTick = singleTick]

\* allChannelsTick is called and sends its request for the list
allChannelsTick ==
    /\ worker.pc \in {"start", "waited"}
    /\ worker.cycles < MaxCycles
    /\ worker' = [worker EXCEPT !.pc = "listing", !.cycles = @ + 1, !.channels = <<>>,
                                !.status = <<>>, !.failed = FALSE,
                                !.waitElapsed = FALSE]
    /\ UNCHANGED tickVars

\* the request settles: it fails and .catch logs it, or the list arrives and the
\* .then of line 56 maps validatorTick over it
channelsListed ==
    /\ worker.pc = "listing"
    /\ \/ worker' = [worker EXCEPT !.pc = "settled", !.failed = TRUE]
       \/ \E channels \in ChannelLists :
             worker' = [worker EXCEPT
                           !.channels = channels,
                           !.status = mapValidatorTick(channels).status,
                           !.failed = mapValidatorTick(channels).threw,
                           !.pc = IF mapValidatorTick(channels).threw THEN "settled"
                                  ELSE "joining"]
    /\ UNCHANGED tickVars

\* the race of channel i's validatorTick settles; its .catch logs a rejection
tickSettles(i) ==
    /\ worker.pc # "exited"
    /\ i \in DOMAIN worker.status
    /\ worker.status[i] = "running"
    /\ \E outcome \in Settled : worker' = [worker EXCEPT !.status[i] = outcome]
    /\ UNCHANGED tickVars

\* Promise.all of the validatorTicks resolves
logPostChannelsTick ==
    /\ worker.pc = "joining"
    /\ \A i \in DOMAIN worker.status : worker.status[i] \in Settled
    /\ worker' = [worker EXCEPT !.pc = "settled"]
    /\ UNCHANGED tickVars

\* the timer that loopChannels set next to allChannelsTick fires
wait ==
    /\ worker.pc \in {"listing", "joining", "settled"}
    /\ ~worker.singleTick
    /\ ~worker.waitElapsed
    /\ worker' = [worker EXCEPT !.waitElapsed = TRUE]
    /\ UNCHANGED tickVars

\* allChannelsTick and wait(cfg.WAIT_TIME) have resolved: .then(loopChannels)
loopChannels ==
    /\ worker.pc = "settled"
    /\ ~worker.singleTick
    /\ worker.waitElapsed
    /\ worker' = [worker EXCEPT !.pc = "waited"]
    /\ UNCHANGED tickVars

\* allChannelsTick().then(() => process.exit(0))
exit ==
    /\ worker.pc = "settled"
    /\ worker.singleTick
    /\ worker' = [worker EXCEPT !.pc = "exited", !.exitCode = <<0>>]
    /\ UNCHANGED tickVars

WorkerNext ==
    \/ allChannelsTick
    \/ channelsListed
    \/ \E i \in 1..MaxChannels : tickSettles(i)
    \/ logPostChannelsTick
    \/ wait
    \/ loopChannels
    \/ exit

WorkerSpec == WorkerInit /\ [][WorkerNext]_vars

----------------------------------------------------------------------------
(* Properties of the follower rules, checked under RulesSpec *)

RECURSIVE SumOver(_, _)
SumOver(f, S) ==
    IF S = {} THEN 0
    ELSE LET k == CHOOSE x \in S : TRUE IN f[k] + SumOver(f, S \ {k})

\* the sum of a balance map
Total(map) == SumOver(map, DOMAIN map)

\* the four conditions of a valid transition
ValidTransition(ch, prev, next) ==
    /\ Total(next) >= Total(prev)
    /\ Total(next) <= ch.depositAmount
    /\ \A k \in DOMAIN prev : k \in DOMAIN next /\ next[k] >= prev[k]
    /\ \A k \in DOMAIN next : next[k] >= 0

\* C8: isValidTransition(channel, prev, next) returns true if and only if
\* sum(next) >= sum(prev), sum(next) <= channel.depositAmount, every key k of prev is a
\* key of next with next[k] >= prev[k], and no value of next is negative; for all balance
\* maps over two accounts with values in -1..MaxTransitionBal.
C8_IsValidTransitionIff ==
    rules.fn = "isValidTransition" =>
        (rules.result <=> ValidTransition(channel, rules.a, rules.b))

\* a call that returned true for a prev with a zero-valued entry and a next with a key
\* that prev has not
C8_Witness ==
    /\ rules.fn = "isValidTransition"
    /\ rules.result
    /\ \E k \in DOMAIN rules.a : rules.a[k] = 0 /\ rules.b[k] = 0
    /\ DOMAIN rules.b \ DOMAIN rules.a # {}

\* mins: the sum over the keys k of our of min(our[k], approved[k] or 0)
Mins(our, approved) ==
    SumOver([k \in DOMAIN our |->
                LET a == IF k \in DOMAIN approved THEN approved[k] ELSE 0
                IN  IF our[k] <= a THEN our[k] ELSE a],
            DOMAIN our)

\* C9: isHealthy(our, approved) returns true if and only if mins >= total or
\* floor(mins * 1000 / total) >= HEALTH_THRESHOLD_PROMILLES; when total is 0 it returns
\* true, and it never divides by zero; for all maps of non-negative balances.
C9_IsHealthyIff ==
    rules.fn = "isHealthy" =>
        LET mins == Mins(rules.a, rules.b)
            total == Total(rules.a)
        IN  /\ ~rules.threw
            /\ rules.result <=>
                  \/ mins >= total
                  \/ total # 0 /\ (mins * 1000) \div total >= HEALTH_THRESHOLD_PROMILLES
            /\ total = 0 => rules.result

\* a call that returned true on the threshold: mins below total, the quotient exactly
\* HEALTH_THRESHOLD_PROMILLES
C9_Witness ==
    /\ rules.fn = "isHealthy"
    /\ rules.result
    /\ Mins(rules.a, rules.b) < Total(rules.a)
    /\ (Mins(rules.a, rules.b) * 1000) \div Total(rules.a) = HEALTH_THRESHOLD_PROMILLES

\* our[k] <= approved[k] for every key k of our, a key missing from approved counting as 0
PointwiseLeq(our, approved) ==
    \A k \in DOMAIN our : our[k] <= (IF k \in DOMAIN approved THEN approved[k] ELSE 0)

\* C10: health monotonicity: isHealthy(our, approved) is true whenever our is pointwise
\* at most approved.
C10_HealthMonotonicity ==
    (rules.fn = "isHealthy" /\ PointwiseLeq(rules.a, rules.b)) => rules.result

\* a healthy call with our pointwise at most approved, strictly below it for one account
\* and with an account that approved has not
C10_Witness ==
    /\ rules.fn = "isHealthy"
    /\ rules.result
    /\ PointwiseLeq(rules.a, rules.b)
    /\ \E k \in DOMAIN rules.a \cap DOMAIN rules.b : 0 < rules.a[k] /\ rules.a[k] < rules.b[k]
    /\ DOMAIN rules.a \ DOMAIN rules.b # {}

----------------------------------------------------------------------------
(* Properties of the follower tick, checked under Spec, SpecPart000 and LiveSpec *)

ApproveStates == validatorMessages["ApproveState"]
RejectStates == validatorMessages["RejectState"]
LeaderNewStates == validatorMessages["NewState"]

\* the tick in slot t runs to its end in this step
Finishes(t) ==
    /\ ticks[t].pc = "fetched"
    /\ ticks'[t].pc = "idle"
    /\ \A u \in Slots \ {t} : ticks'[u] = ticks[u]

\* what the tick in slot t validates against: the balances of the ApproveState it read
PrevBalances(t) ==
    IF ticks[t].approveMsg = undefined THEN EmptyMap ELSE ticks[t].approveMsg[1].balances

\* the tick in slot t read a NewState of the leader that its ApproveState does not match
Pending(t) ==
    /\ ticks[t].newMsg # null
    /\ \/ ticks[t].approveMsg = undefined
       \/ ticks[t].newMsg[1].stateRoot # ticks[t].approveMsg[1].stateRoot

ReasonOrder ==
    <<"InvalidTransition", "InvalidValidatorFees", "InvalidRootHash", "InvalidSignature">>

\* the NewState m, to follow the balances prev, fails the check that reports reason
FailsFor(reason, prev, m) ==
    CASE reason = "InvalidTransition" -> ~ValidTransition(channel, prev, m.balances)
      [] reason = "InvalidValidatorFees" ->
            getBalancesAfterFeesTree(m.balances, channel) # m.balancesAfterFees
      [] reason = "InvalidRootHash" ->
            getStateRoot(channel, m.balancesAfterFees) # m.stateRoot
      [] reason = "InvalidSignature" -> ~verify(leader, m.stateRoot, m.signature)

FailedChecks(prev, m) == {i \in DOMAIN ReasonOrder : FailsFor(ReasonOrder[i], prev, m)}

FirstFailed(prev, m) ==
    CHOOSE i \in FailedChecks(prev, m) : \A j \in FailedChecks(prev, m) : i <= j

\* C1: an ApproveState with stateRoot r is persisted only by a tick that read a NewState
\* of the leader with stateRoot r which passes all four checks (valid transition from
\* the balances of the ApproveState read, recomputed balancesAfterFees equal to the
\* claimed ones, recomputed root equal to r, signature of the leader on r); no other
\* step persists an ApproveState.
C1_ApproveOnlyValid ==
    [][/\ \A t \in Slots : Finishes(t) =>
             \A i \in DOMAIN ApproveStates' \ DOMAIN ApproveStates :
                /\ ticks[t].newMsg # null
                /\ ticks[t].newMsg[1].type = "NewState"
                /\ ticks[t].newMsg[1].from = leader
                /\ ticks[t].newMsg[1].stateRoot = ApproveStates'[i].stateRoot
                /\ FailedChecks(PrevBalances(t), ticks[t].newMsg[1]) = {}
                /\ ApproveStates'[i].from = whoami
       /\ (\A t \in Slots : ~Finishes(t)) => ApproveStates' = ApproveStates
      ]_vars

\* an ApproveState was persisted for a NewState in the store while the store also holds
\* a NewState that fails a check
C1_Witness ==
    /\ \E i \in DOMAIN ApproveStates, j \in DOMAIN LeaderNewStates :
          /\ ApproveStates[i].stateRoot = LeaderNewStates[j].stateRoot
          /\ FailedChecks(EmptyMap, LeaderNewStates[j]) = {}
    /\ \E j \in DOMAIN LeaderNewStates : FailedChecks(EmptyMap, LeaderNewStates[j]) # {}

\* C2: a tick whose validation of the pending NewState fails persists a RejectState with
\* the reason of the failure and the stateRoot of the NewState, and propagates it.
C2_RejectStatePersisted ==
    [][\A t \in Slots :
          (/\ Finishes(t)
           /\ Pending(t)
           /\ FailedChecks(PrevBalances(t), ticks[t].newMsg[1]) # {}) =>
          \E i \in DOMAIN RejectStates' \ DOMAIN RejectStates :
             /\ RejectStates'[i].reason \in
                   {ReasonOrder[c] : c \in FailedChecks(PrevBalances(t), ticks[t].newMsg[1])}
             /\ RejectStates'[i].stateRoot = ticks[t].newMsg[1].stateRoot
             /\ <<"RejectState", i>> \in propagated'
      ]_vars

\* C3: onNewState reports, for a NewState that fails, the reason of the earliest
\* failing check in the order InvalidTransition, InvalidValidatorFees, InvalidRootHash,
\* InvalidSignature, and evaluates no check after that one (verify only when the three
\* before it pass); what it emits then is at most a RejectState with that reason.
C3_FirstFailureInOrder ==
    rules.fn = "onNewState" =>
        LET m == rules.newMsg[1]
            prev == IF rules.approveMsg = undefined THEN EmptyMap
                    ELSE rules.approveMsg[1].balances
            res == rules.res[1]
        IN  FailedChecks(prev, m) # {} =>
               LET first == FirstFailed(prev, m)
               IN  /\ res.reason = ReasonOrder[first]
                   /\ res.evaluated = SubSeq(CheckOrder, 1, first)
                   /\ first < Len(CheckOrder) =>
                         \A n \in DOMAIN res.evaluated : res.evaluated[n] # "verify"
                   /\ \A i \in DOMAIN res.emitted :
                         /\ res.emitted[i].type = "RejectState"
                         /\ res.emitted[i].reason = ReasonOrder[first]

\* a call on a NewState that fails all four checks, which reported InvalidTransition
\* after evaluating one check
C3_Witness ==
    /\ rules.fn = "onNewState"
    /\ rules.approveMsg # undefined
    /\ FailedChecks(rules.approveMsg[1].balances, rules.newMsg[1]) = {1, 2, 3, 4}
    /\ rules.res[1].reason = "InvalidTransition"
    /\ Len(rules.res[1].evaluated) = 1

\* C4: a tick that read no NewState of the leader, or a NewState with the stateRoot of
\* the ApproveState it read, persists no ApproveState and no RejectState and evaluates
\* no check; it runs the producer tick and the heartbeat step on the producer's result.
C4_NothingPending ==
    [][\A t \in Slots : (Finishes(t) /\ ~Pending(t)) =>
          /\ ApproveStates' = ApproveStates
          /\ RejectStates' = RejectStates
          /\ \A pending \in PendingPayouts :
                tickResult(ticks[t].newMsg, ticks[t].approveMsg, pending).evaluated = <<>>
          /\ \E pending \in PendingPayouts, elapsed \in BOOLEAN :
                LET res == producerTick(accounting, pending)
                IN  /\ accounting' = res.balances
                    /\ validatorMessages' =
                          insert(heartbeatIfNothingNew([nothingNew |-> ~res.newStateTree],
                                                       elapsed))
      ]_vars

\* a tick in flight that read a NewState of the leader and our ApproveState of its
\* stateRoot
C4_Witness ==
    \E t \in Slots :
       /\ ticks[t].pc = "fetched"
       /\ ticks[t].newMsg # null
       /\ ticks[t].approveMsg # undefined
       /\ ticks[t].newMsg[1].stateRoot = ticks[t].approveMsg[1].stateRoot

\* the balances of the NewState our last ApproveState refers to
ApprovedBalances ==
    IF ApproveStates = <<>> THEN EmptyMap
    ELSE LET r == ApproveStates[Len(ApproveStates)].stateRoot
             j == CHOOSE j \in DOMAIN LeaderNewStates : LeaderNewStates[j].stateRoot = r
         IN  LeaderNewStates[j].balances

\* the n-th NewState is the leader's latest and passes the four checks, no tick in
\* flight has read a NewState that is pending, and the follower goes on ticking
ValidPending(n) ==
    /\ Len(LeaderNewStates) = n
    /\ FailedChecks(ApprovedBalances, LeaderNewStates[n]) = {}
    /\ \A t \in Slots : ticks[t].pc = "fetched" => ~Pending(t)
    /\ ticksStarted < MaxTicks

\* the store holds an ApproveState with the stateRoot of the n-th NewState
Approved(n) ==
    /\ n <= Len(LeaderNewStates)
    /\ \E i \in DOMAIN ApproveStates :
          ApproveStates[i].stateRoot = LeaderNewStates[n].stateRoot

C6_OneApprovePerStateRoot ==
    \A i, j \in DOMAIN ApproveStates :
       ApproveStates[i].stateRoot = ApproveStates[j].stateRoot => i = j

\* the balances of the NewState that an ApproveState refers to
BalancesOf(approveMsg) ==
    LET j == CHOOSE j \in DOMAIN LeaderNewStates :
                LeaderNewStates[j].stateRoot = approveMsg.stateRoot
    IN  LeaderNewStates[j].balances

\* C7: for any two consecutive ApproveStates of the store, with prev and next the
\* balances of the NewStates they refer to: sum(next) <= depositAmount, next[k] >=
\* prev[k] for every key k of prev, and no value of next is negative.
C7_ApprovedBalancesMonotone ==
    \A i \in DOMAIN ApproveStates : i > 1 =>
       LET prev == BalancesOf(ApproveStates[i - 1])
           next == BalancesOf(ApproveStates[i])
       IN  /\ Total(next) <= channel.depositAmount
           /\ \A k \in DOMAIN prev : k \in DOMAIN next /\ next[k] >= prev[k]
           /\ \A k \in DOMAIN next : next[k] >= 0

\* C11: the isHealthy flag of every ApproveState a tick persists equals
\* isHealthy(ours, next), with next the balances of the NewState the tick read and
\* approves and ours the balance map its own producer tick returned, pending payouts
\* folded in; so the flag is false when ours exceeds next beyond the threshold.
C11_HealthOfApproveState ==
    [][\A t \in Slots : Finishes(t) =>
          \A i \in DOMAIN ApproveStates' \ DOMAIN ApproveStates :
             /\ \E pending \in PendingPayouts :
                   accounting' = producerTick(accounting, pending).balances
             /\ ApproveStates'[i].isHealthy =
                   isHealthy(accounting', ticks[t].newMsg[1].balances)
      ]_vars

\* an unhealthy ApproveState, persisted while the follower had accounted for more than
\* the leader's NewState, followed by a healthy one for a NewState that caught up
C11_Witness ==
    /\ Len(ApproveStates) = 2
    /\ ~ApproveStates[1].isHealthy
    /\ ApproveStates[2].isHealthy
    /\ Total(BalancesOf(ApproveStates[1])) < Total(BalancesOf(ApproveStates[2]))
    /\ Total(BalancesOf(ApproveStates[2])) = Total(accounting)

\* the stateRoot of our latest ApproveState, if there is one
LatestApprovedRoot(msgs) ==
    IF msgs["ApproveState"] = <<>> THEN <<>>
    ELSE <<msgs["ApproveState"][Len(msgs["ApproveState"])].stateRoot>>

\* the store holds a RejectState of ours for the NewState that the tick in slot t read
RejectedBefore(t) ==
    /\ ticks[t].newMsg # null
    /\ \E j \in DOMAIN RejectStates :
          RejectStates[j].stateRoot = ticks[t].newMsg[1].stateRoot

\* C12: once the store holds a RejectState of the follower for the leader's NewState
\* with stateRoot r, a tick that read r as the leader's latest NewState does not retry:
\* it persists no ApproveState for r and no further RejectState for r, and the
\* stateRoot of the latest ApproveState stays as it was.
C12_NoRetryAfterReject ==
    [][\A t \in Slots : (Finishes(t) /\ RejectedBefore(t)) =>
          /\ \A i \in DOMAIN ApproveStates' \ DOMAIN ApproveStates :
                ApproveStates'[i].stateRoot # ticks[t].newMsg[1].stateRoot
          /\ \A i \in DOMAIN RejectStates' \ DOMAIN RejectStates :
                RejectStates'[i].stateRoot # ticks[t].newMsg[1].stateRoot
          /\ LatestApprovedRoot(validatorMessages') = LatestApprovedRoot(validatorMessages)
      ]_vars

InProgress == {t \in Slots : ticks[t].pc = "fetched"}

\* C14: a tick whose timeout has fired is abandoned: it writes nothing more to the
\* store, propagates nothing more and leaves the balance tree alone; and at most one
\* tick of the channel is in progress at any time.
C14_TimedOutTickAbandoned ==
    [][/\ \A t \in Slots : (Finishes(t) /\ ticks[t].timedOut) =>
             /\ validatorMessages' = validatorMessages
             /\ propagated' = propagated
             /\ accounting' = accounting
       /\ Cardinality(InProgress') <= 1
      ]_vars

\* the documents of the store, as the pairs that propagated holds
Persisted(msgs) == UNION {{<<type, i>> : i \in DOMAIN msgs[type]} : type \in MsgTypes}

CycleOver == worker.pc \in {"settled", "waited", "exited"}

\* C16: a failure of one channel's validatorTick in a cycle stays with that channel:
\* once the list has arrived, the tick of every other channel of the list is started,
\* the cycle is over only when each of them has resolved, failed or timed out, and
\* a worker that loops does not exit.
C16_FailureConfined ==
    /\ worker.pc \in {"joining"} \cup {"settled", "waited", "exited"} =>
          \A i \in DOMAIN worker.status : worker.status[i] # "notStarted"
    /\ CycleOver => \A i \in DOMAIN worker.status : worker.status[i] \in Settled
    /\ ~worker.singleTick => worker.pc # "exited"

\* C17: a tick that persists no ApproveState emits a Heartbeat when one is due,
\* whatever its producer tick returned and also when it rejected the pending NewState;
\* stated for the ticks that find no Heartbeat of ours in the store, for which one is
\* due whatever the clock says.
C17_HeartbeatWhenDue ==
    [][\A t \in Slots :
          (/\ Finishes(t)
           /\ ApproveStates' = ApproveStates
           /\ NumberOf("Heartbeat") = 0) =>
          validatorMessages'["Heartbeat"] = <<HeartbeatMsg>>
      ]_vars

\* C18: getLatestMsg(channel.id, leader, 'NewState') returns the NewState of the leader
\* on the channel that was inserted last, and null when the store has none, whatever
\* the order of insertion and the fields that the senders set.
C18_LatestIsLastInserted ==
    rules.fn = "getLatestMsg" =>
        LET found == {i \in DOMAIN LeaderNewStates :
                         /\ LeaderNewStates[i].channelId = channel.id
                         /\ LeaderNewStates[i].from = leader}
        IN  IF found = {} THEN rules.newMsg = null
            ELSE rules.newMsg =
                    Some(LeaderNewStates[CHOOSE i \in found : \A j \in found : j <= i])

\* C19: the store holds, for the follower's latest ApproveState, a NewState with the
\* same stateRoot, and augmentWithBalances does not throw on what
\* getLatestMsg(channel.id, whoami, 'ApproveState') returns.
C19_ApproveStateHasNewState ==
    \A approveMsg \in getLatestMsg(channel.id, whoami, "ApproveState") :
       /\ approveMsg # null =>
             \E j \in DOMAIN LeaderNewStates :
                LeaderNewStates[j].stateRoot = approveMsg[1].stateRoot
       /\ ~augmentWithBalances(approveMsg).threw

\* a tick in flight that read the second NewState of the leader and our ApproveState
\* of the first, augmented with the balances of the first
C19_Witness ==
    /\ Len(LeaderNewStates) = 2
    /\ Len(ApproveStates) >= 1
    /\ \E t \in Slots :
          /\ ticks[t].pc = "fetched"
          /\ ticks[t].approveMsg # undefined
          /\ ticks[t].newMsg = Some(LeaderNewStates[2])
          /\ ticks[t].approveMsg[1].stateRoot = LeaderNewStates[1].stateRoot
          /\ ticks[t].approveMsg[1].stateRoot # LeaderNewStates[2].stateRoot
          /\ ticks[t].approveMsg[1].balances = LeaderNewStates[1].balances

\* C20: with --singleTick the worker calls allChannelsTick once, so the list is fetched
\* once, and it exits, with code 0, only when the validatorTick of every channel of
\* the list has resolved, failed or timed out; it starts no second cycle.
C20_SingleTick ==
    worker.singleTick =>
        /\ worker.cycles <= 1
        /\ worker.pc = "exited" =>
              /\ worker.exitCode = <<0>>
              /\ \A i \in DOMAIN worker.channels :
                    i \in DOMAIN worker.status /\ worker.status[i] \in Settled

\* the stateRoots of the documents of one type
RootsOf(msgs, type) == {msgs[type][i].stateRoot : i \in DOMAIN msgs[type]}

\* the stateRoots that the follower has resolved: approved or rejected
Resolved(msgs) == RootsOf(msgs, "ApproveState") \cup RootsOf(msgs, "RejectState")

\* the documents of one type that this step writes
Written(type) ==
    {validatorMessages'[type][i] :
        i \in DOMAIN validatorMessages'[type] \ DOMAIN validatorMessages[type]}

\* C21: the follower's state on the channel moves only along Idle -> Pending(r),
\* Pending(r) -> Approved(r), Pending(r) -> Rejected(r, reason) and Approved or
\* Rejected -> Pending(r') with r' another stateRoot: a tick holds r as pending only
\* when the store has no ApproveState and no RejectState of r, a tick that holds r as
\* pending writes exactly one ApproveState or RejectState, for r, no other step writes
\* either, and no stateRoot is both approved and rejected.
C21_StateMachine ==
    [][/\ \A t \in Slots : Finishes(t) =>
             /\ Pending(t) =>
                   /\ ticks[t].newMsg[1].stateRoot \notin Resolved(validatorMessages)
                   /\ Cardinality(Written("ApproveState") \cup Written("RejectState")) = 1
                   /\ \A m \in Written("ApproveState") \cup Written("RejectState") :
                         m.stateRoot = ticks[t].newMsg[1].stateRoot
             /\ ~Pending(t) => Written("ApproveState") \cup Written("RejectState") = {}
       /\ (\A t \in Slots : ~Finishes(t)) =>
             Written("ApproveState") \cup Written("RejectState") = {}
       /\ RootsOf(validatorMessages', "ApproveState")
             \cap RootsOf(validatorMessages', "RejectState") = {}
      ]_vars

\* C22: a worker that loops starts the next cycle only when every validatorTick that
\* the running cycle started has resolved, failed or timed out and the timer of
\* WAIT_TIME set at its start has fired, so no validatorTick of one cycle is
\* unsettled when the next fans out; and a cycle whose list request failed is
\* followed by the next one.
C22_CyclesDoNotOverlap ==
    [][/\ (worker.pc = "settled" /\ worker'.pc = "waited") =>
             /\ \A i \in DOMAIN worker.status : worker.status[i] # "running"
             /\ worker.waitElapsed
       /\ worker'.cycles # worker.cycles => worker.pc \in {"start", "waited"}
       /\ (~worker.singleTick /\ worker.pc = "settled" /\ worker.waitElapsed) =>
             ENABLED loopChannels
      ]_vars

\* C23: the balances that a tick validates its pending NewState against are those of
\* a NewState in the store that the leader sent on the channel and whose stateRoot is
\* that of the ApproveState the tick read; no NewState of another sender or another
\* channel supplies them.
C23_PrevFromLeaderNewState ==
    \A t \in Slots :
       (ticks[t].pc = "fetched" /\ ticks[t].approveMsg # undefined) =>
          \E j \in DOMAIN LeaderNewStates :
             /\ LeaderNewStates[j].from = leader
             /\ LeaderNewStates[j].channelId = channel.id
             /\ LeaderNewStates[j].stateRoot = ticks[t].approveMsg[1].stateRoot
             /\ LeaderNewStates[j].balances = PrevBalances(t)

====
